---- MODULE Spec2Model ----
(***************************************************************************)
(* Game of Life (src/src/main.rs): the Model struct, the per-frame update  *)
(* callback with its settings panel and step timer, the step function      *)
(* update_field, and the pointer handlers mouse_moved / mouse_released.    *)
(*                                                                         *)
(* Vec<bool> is a function over 0..len-1 (the code's 0-based indices).     *)
(* Time is counted in units of 100 ms: the slider's lower end (100 ms) is  *)
(* 1 and the startup delay (200 ms) is 2.  Pointer offsets and the window  *)
(* size are whole pixels; the f32 quotient floor(p / (W / width)) is       *)
(* computed exactly as floor(p * width / W).                               *)
(***************************************************************************)
EXTENDS Integers, Sequences, FiniteSets, TLC

\* ---------------------------------------------------------------- bounds
\* The program is started with Settings.width x Settings.height cells (120 x 80
\* in the source); the model starts it with every shape of at most GridCells
\* cells.
GridCells == 4
\* The largest number of cells of a grid the step function is applied to on
\* its own (SpecStep).
MaxCells == 9
\* The largest number of cells of the grid of the program checked for
\* liveness (SpecLive).
LiveCells == 1
\* app.window_rect(): bounds.w() and bounds.h(), in pixels.
WinW == 2
WinH == 2
\* The slider's upper end (2000 ms in the source), in units of 100 ms.
MaxDelay == 2
\* The largest width*height of the settings the step function is applied to
\* with a vector of any length up to one more (SpecAnyLen).
AnyLenCells == 4
\* The widest and the tallest grid the step function is applied to with a
\* placed pattern (SpecPattern).
PatW == 5
PatH == 4

\* ------------------------------------------------------- program constants
\* Slider lower end, 100 ms.
DelayMin == 1
\* Settings.delay at startup, 200 ms.
StartDelay == 2

VARIABLES
    field,          \* Model.field: Vec<bool>
    settings,       \* Model.settings: [width, height, delay]
    active,         \* Model.active
    mouse_pos,      \* Model.mouse_pos: [x, y], offset from the window's bottom-left
    current_step,   \* Model.current_step: time accumulated since the last step
    crashed,        \* a handler panicked (unwrap of None, index out of bounds)
    stepped,        \* the latest handler invoked update_field
    call            \* that invocation: its arguments, before and after, and its result

vars == <<field, settings, active, mouse_pos, current_step, crashed, stepped, call>>

\* ---------------------------------------------------------------- helpers
VecLen(v) == Cardinality(DOMAIN v)

Delays == DelayMin..MaxDelay

\* update.since_last values offered to a tick: no time, one unit, and more
\* than the longest delay
Dts == {0, 1, MaxDelay + 1}

PointerXs == -1..WinW
PointerYs == -1..WinH

Buttons == {"Left", "Right", "Middle"}

NoCall == [made |-> FALSE]

\* the width x height pairs of at most n cells
Shapes(n) == {wh \in (1..n) \X (1..n) : wh[1] * wh[2] <= n}

\* Vec::new() followed by width*height pushes of false
NewField(w, h) == [i \in 0..(w * h - 1) |-> FALSE]

\* ------------------------------------------------------------ update_field
\* InRange without the right-edge test: column width runs into the next row
InRangeNoRightEdge(x_n, y_n, s) ==
    ~(x_n < 0 \/ y_n < 0 \/ y_n >= s.height)

\* the negation of the "skip if out of bounds" condition
InRange(x_n, y_n, s) ==
    ~(x_n < 0 \/ x_n >= s.width \/ y_n < 0 \/ y_n >= s.height)

\* the neighbour index read at (x_n, y_n)
NeighbourIndex(x_n, y_n, s) == x_n + (y_n * s.width)

\* One iteration of the dy/dx loops: 0 = skipped or dead, 1 = counted,
\* -1 = the read field[..] is out of the vector (panic).
Neighbour(f, s, x, y, dx, dy) ==
    IF dx = 1 /\ dy = 1 THEN 0
    ELSE LET x_n == (x + dx) - 1
             y_n == (y + dy) - 1
         IN IF ~InRange(x_n, y_n, s) THEN 0
            ELSE IF NeighbourIndex(x_n, y_n, s) \notin DOMAIN f THEN -1
            ELSE IF f[NeighbourIndex(x_n, y_n, s)] THEN 1 ELSE 0

\* A let binding: v is evaluated once and F applied to its value.
Bind(v, F(_)) == CHOOSE r \in {F(w) : w \in {v}} : TRUE

\* for dy in 0..3 { for dx in 0..3 { ... } }: the outcomes of the nine
\* iterations, iteration k being dy = k div 3, dx = k mod 3
NeighbourLoop(f, s, x, y) ==
    [k \in 0..8 |-> Neighbour(f, s, x, y, k % 3, k \div 3)]

\* alive_neighbours += 1 over the iterations, or -1 when a read panicked
Tally(nb) ==
    IF \E k \in 0..8 : nb[k] = -1 THEN -1
    ELSE nb[0] + nb[1] + nb[2] + nb[3] + nb[4] + nb[5] + nb[6] + nb[7] + nb[8]

alive_neighbours(f, s, x, y) == Bind(NeighbourLoop(f, s, x, y), Tally)

\* NextTile with survival on exactly two neighbours only
NextTileTwoOnly(tile, n) ==
    IF tile
    THEN IF n # 2 THEN FALSE ELSE tile
    ELSE IF n = 3 THEN TRUE ELSE tile

\* NextTile with the birth test inverted
NextTileBirthInverted(tile, n) ==
    IF tile
    THEN IF n # 2 /\ n # 3 THEN FALSE ELSE tile
    ELSE IF n # 3 THEN TRUE ELSE tile

\* NextTile with the birth on two neighbours
NextTileBirthOnTwo(tile, n) ==
    IF tile
    THEN IF n # 2 /\ n # 3 THEN FALSE ELSE tile
    ELSE IF n = 2 THEN TRUE ELSE tile

\* the rule applied to *tile
NextTile(tile, n) ==
    IF tile
    THEN IF n # 2 /\ n # 3 THEN FALSE ELSE tile
    ELSE IF n = 3 THEN TRUE ELSE tile

\* TileIndex with the row multiplied by the height
TileIndexByHeight(i, s) == (i % s.width) + ((i \div s.width) * s.height)

\* the cell index i as (x, y) and back: the tile written for cell i
TileIndex(i, s) == (i % s.width) + ((i \div s.width) * s.width)

\* *tile = ... on the clone, or the panic of an index out of the vector
WriteTile(st, t, cnt) ==
    IF cnt = -1 \/ t \notin DOMAIN st.copy
    THEN [st EXCEPT !.panicked = TRUE]
    ELSE [st EXCEPT !.copy[t] = NextTile(st.copy[t], cnt)]

\* WriteTile writing the tile through the &mut field as well
WriteTileAndInput(st, t, cnt) ==
    IF cnt = -1 \/ t \notin DOMAIN st.copy
    THEN [st EXCEPT !.panicked = TRUE]
    ELSE [st EXCEPT !.copy[t] = NextTile(st.copy[t], cnt),
                    !.field[t] = NextTile(st.copy[t], cnt)]

\* VisitCell counting the neighbours in the vector being written (in place)
VisitCellInPlace(st, i) ==
    IF st.panicked THEN st
    ELSE Bind(alive_neighbours(st.copy, st.settings,
                               i % st.settings.width, i \div st.settings.width),
              LAMBDA cnt : WriteTile(st, TileIndex(i, st.settings), cnt))

\* VisitCell writing the tile through the &mut field as well
VisitCellWritesInput(st, i) ==
    IF st.panicked THEN st
    ELSE Bind(alive_neighbours(st.field, st.settings,
                               i % st.settings.width, i \div st.settings.width),
              LAMBDA cnt : WriteTileAndInput(st, TileIndex(i, st.settings), cnt))

\* The body of "for i in 0..(height * width)" on the call's locals
\* st = [field, settings, copy, panicked]: x = i % width, y = i / width, the
\* neighbours are read from st.field, the result is written to st.copy.
VisitCell(st, i) ==
    IF st.panicked THEN st
    ELSE Bind(alive_neighbours(st.field, st.settings,
                               i % st.settings.width, i \div st.settings.width),
              LAMBDA cnt : WriteTile(st, TileIndex(i, st.settings), cnt))

\* the loop over a sequence of cell indices
RECURSIVE VisitAll(_, _)
VisitAll(st, order) ==
    IF order = <<>> THEN st
    ELSE Bind(VisitCell(st, Head(order)), LAMBDA v : VisitAll(v, Tail(order)))

\* 0..(height * width) as the sequence 0, 1, ..., n-1
Ascending(n) == [k \in 1..n |-> k - 1]

\* let mut copy = field.clone()
CallEntry(f, s) == [field |-> f, settings |-> s, copy |-> f, panicked |-> FALSE]

\* update_field(&mut field, &mut settings): the call's final locals; the
\* returned vector is .copy, .field and .settings are the referents after it.
update_field(f, s) ==
    VisitAll(CallEntry(f, s), Ascending(s.height * s.width))

\* what `call` records of an invocation
CallRecord(f, s, r) ==
    [made |-> TRUE, arg |-> f, arg_settings |-> s,
     after |-> r.field, after_settings |-> r.settings,
     ret |-> r.copy, panicked |-> r.panicked]

\* ------------------------------------------------------------------ model
Init ==
    /\ \E wh \in Shapes(GridCells) :
          /\ settings = [width |-> wh[1], height |-> wh[2], delay |-> StartDelay]
          /\ field = NewField(wh[1], wh[2])
    /\ active = FALSE
    /\ mouse_pos = [x |-> 0, y |-> 0]
    /\ current_step = 0
    /\ crashed = FALSE
    /\ stepped = FALSE
    /\ call = NoCall

\* ----------------------------------------------------------------- update
\* Clear emptying the vector (field.clear()) instead of resetting its cells
ClearedEmpty(f) == [i \in {} |-> FALSE]

\* Clear with its loop started at 1
ClearedFromOne(f) == [i \in DOMAIN f |-> IF i = 0 THEN f[i] ELSE FALSE]

\* the Clear button's loop
Cleared(f) == [i \in DOMAIN f |-> FALSE]

\* the panel: Start/Stop button, delay slider, Clear button
PanelActive(clicked) == IF clicked THEN ~active ELSE active
PanelSettings(new_delay) == [settings EXCEPT !.delay = new_delay]
PanelField(clear_clicked) == IF clear_clicked THEN Cleared(field) ELSE field

\* the early return missing
PausedNever(a) == FALSE

\* if !model.active { return; }
Paused(a) == ~a

\* = for +=
AccumulateOverwrites(cs, since_last) == since_last

\* model.current_step += update.since_last
Accumulate(cs, since_last) == cs + since_last

\* StepDue with >= for >
StepDueAtDelay(acc, s) == acc >= s.delay

\* current_step > Duration::from_millis(delay)
StepDue(acc, s) == acc > s.delay

\* the steps a timer that catches up makes: one per delay interval exceeded
RECURSIVE StepsOwed(_, _)
StepsOwed(acc, d) == IF acc > d THEN 1 + StepsOwed(acc - d, d) ELSE 0

\* update_field applied n times, n >= 1
RECURSIVE Generations(_, _, _)
Generations(f, s, n) ==
    IF n <= 1 THEN update_field(f, s)
    ELSE Bind(update_field(f, s),
              LAMBDA r : IF r.panicked THEN r
                         ELSE [Generations(r.copy, s, n - 1) EXCEPT !.field = f])

\* update with "while current_step > delay { step; current_step -= delay }"
\* for the "if"
updateCatchingUp(clicked, new_delay, clear_clicked, since_last) ==
    /\ ~crashed
    /\ LET active1 == PanelActive(clicked)
           settings1 == PanelSettings(new_delay)
           field1 == PanelField(clear_clicked)
           acc == Accumulate(current_step, since_last)
           owed == StepsOwed(acc, new_delay)
       IN /\ active' = active1
          /\ mouse_pos' = mouse_pos
          /\ IF Paused(active1)
             THEN /\ field' = field1
                  /\ settings' = settings1
                  /\ current_step' = current_step
                  /\ crashed' = crashed
                  /\ stepped' = FALSE
                  /\ call' = NoCall
             ELSE IF StepDue(acc, settings1)
             THEN /\ stepped' = TRUE
                  /\ \E r \in {Generations(field1, settings1, owed)} :
                     /\ call' = CallRecord(field1, settings1, r)
                     /\ settings' = r.settings
                     /\ IF r.panicked
                        THEN /\ field' = r.field
                             /\ current_step' = acc
                             /\ crashed' = TRUE
                        ELSE /\ field' = r.copy
                             /\ current_step' = acc - (owed * new_delay)
                             /\ crashed' = crashed
             ELSE /\ field' = field1
                  /\ settings' = settings1
                  /\ current_step' = acc
                  /\ crashed' = crashed
                  /\ stepped' = FALSE
                  /\ call' = NoCall

\* update with the timer path run before the panel: the timer sees the flag,
\* the delay and the grid of the previous tick, the panel's Clear comes last
updateTimerFirst(clicked, new_delay, clear_clicked, since_last) ==
    /\ ~crashed
    /\ LET acc == Accumulate(current_step, since_last)
       IN /\ active' = PanelActive(clicked)
          /\ mouse_pos' = mouse_pos
          /\ IF Paused(active)
             THEN /\ field' = PanelField(clear_clicked)
                  /\ settings' = PanelSettings(new_delay)
                  /\ current_step' = current_step
                  /\ crashed' = crashed
                  /\ stepped' = FALSE
                  /\ call' = NoCall
             ELSE IF StepDue(acc, settings)
             THEN /\ stepped' = TRUE
                  /\ \E r \in {update_field(field, settings)} :
                     /\ call' = CallRecord(field, settings, r)
                     /\ settings' = [r.settings EXCEPT !.delay = new_delay]
                     /\ IF r.panicked
                        THEN /\ field' = r.field
                             /\ current_step' = acc
                             /\ crashed' = TRUE
                        ELSE /\ field' = IF clear_clicked THEN Cleared(r.copy)
                                                         ELSE r.copy
                             /\ current_step' = 0
                             /\ crashed' = crashed
             ELSE /\ field' = PanelField(clear_clicked)
                  /\ settings' = PanelSettings(new_delay)
                  /\ current_step' = acc
                  /\ crashed' = crashed
                  /\ stepped' = FALSE
                  /\ call' = NoCall

update(clicked, new_delay, clear_clicked, since_last) ==
    /\ ~crashed
    /\ LET active1 == PanelActive(clicked)
           settings1 == PanelSettings(new_delay)
           field1 == PanelField(clear_clicked)
           acc == Accumulate(current_step, since_last)
       IN /\ active' = active1
          /\ mouse_pos' = mouse_pos
          /\ IF Paused(active1)
             THEN /\ field' = field1
                  /\ settings' = settings1
                  /\ current_step' = current_step
                  /\ crashed' = crashed
                  /\ stepped' = FALSE
                  /\ call' = NoCall
             ELSE IF StepDue(acc, settings1)
             THEN /\ stepped' = TRUE
                  /\ \E r \in {update_field(field1, settings1)} :
                     /\ call' = CallRecord(field1, settings1, r)
                     /\ settings' = r.settings
                     /\ IF r.panicked
                        THEN /\ field' = r.field
                             /\ current_step' = acc
                             /\ crashed' = TRUE
                        ELSE /\ field' = r.copy
                             /\ current_step' = 0
                             /\ crashed' = crashed
             ELSE /\ field' = field1
                  /\ settings' = settings1
                  /\ current_step' = acc
                  /\ crashed' = crashed
                  /\ stepped' = FALSE
                  /\ call' = NoCall

Tick ==
    \E clicked \in BOOLEAN, new_delay \in Delays, clear_clicked \in BOOLEAN,
       since_last \in Dts :
        update(clicked, new_delay, clear_clicked, since_last)

\* ------------------------------------------------------------ mouse_moved
mouse_moved(px, py) ==
    /\ ~crashed
    /\ mouse_pos' = [x |-> px, y |-> py]
    /\ stepped' = FALSE
    /\ call' = NoCall
    /\ UNCHANGED <<field, settings, active, current_step, crashed>>

Move == \E px \in PointerXs, py \in PointerYs : mouse_moved(px, py)

\* --------------------------------------------------------- mouse_released
\* floor(p / (extent / cells)) with extent / cells the f32 cell size
CellOf(p, extent, cells) == (p * cells) \div extent

\* ReleaseIndex with the row multiplied by the height
ReleaseIndexByHeight(pos, s) ==
    CellOf(pos.x, WinW, s.width) + (CellOf(pos.y, WinH, s.height) * s.height)

\* (x + (y * width).floor()), before .to_usize().unwrap()
ReleaseIndex(pos, s) ==
    CellOf(pos.x, WinW, s.width) + (CellOf(pos.y, WinH, s.height) * s.width)

\* Toggled setting the cell alive instead of flipping it
ToggledSet(f, index) == [f EXCEPT ![index] = TRUE]

\* model.field[index] = !model.field[index]
Toggled(f, index) == [f EXCEPT ![index] = ~f[index]]

mouse_released(button) ==
    /\ ~crashed
    /\ stepped' = FALSE
    /\ call' = NoCall
    /\ IF button # "Left"
       THEN UNCHANGED <<field, settings, active, mouse_pos, current_step, crashed>>
       ELSE LET index == ReleaseIndex(mouse_pos, settings)
            IN /\ IF index < 0 \/ index \notin DOMAIN field
                  THEN /\ crashed' = TRUE
                       /\ field' = field
                  ELSE /\ crashed' = crashed
                       /\ field' = Toggled(field, index)
               /\ UNCHANGED <<settings, active, mouse_pos, current_step>>

Release == \E button \in Buttons : mouse_released(button)

\* ------------------------------------------------------------- draw_tiles
\* the loop of draw_tiles: for each i in 0..(width * height) the rectangle
\* drawn in column x = i % width and row y = i / width, coloured by
\* tile = field[i] (a read out of the vector panics)
draw_tiles(f, s) ==
    [i \in 0..((s.width * s.height) - 1) |->
        [x |-> i % s.width,
         y |-> i \div s.width,
         tile |-> IF i \in DOMAIN f THEN f[i] ELSE "panic"]]

\* ------------------------------------------------------------------- Spec
Next == Tick \/ Move \/ Release

Spec == Init /\ [][Next]_vars

\* ------------------------------------------- the program without releases
NextNoRelease == Tick \/ Move

SpecNoRelease == Init /\ [][NextNoRelease]_vars

\* ------------------------------------------------- the program, with ticks
\* nannou calls update once per frame for as long as the application runs
\* (main: app(model).update(update).run()); PositiveTick is such a call with
\* time elapsed since the previous one.
PositiveTick ==
    \E clicked \in BOOLEAN, new_delay \in Delays, clear_clicked \in BOOLEAN,
       since_last \in Dts \ {0} :
        update(clicked, new_delay, clear_clicked, since_last)

\* The timer does not read the grid: the liveness of the steps is checked on
\* the program started with the shapes of at most LiveCells cells.
InitLive ==
    /\ \E wh \in Shapes(LiveCells) :
          /\ settings = [width |-> wh[1], height |-> wh[2], delay |-> StartDelay]
          /\ field = NewField(wh[1], wh[2])
    /\ active = FALSE
    /\ mouse_pos = [x |-> 0, y |-> 0]
    /\ current_step = 0
    /\ crashed = FALSE
    /\ stepped = FALSE
    /\ call = NoCall

SpecLive == InitLive /\ [][Next]_vars /\ WF_vars(PositiveTick)

\* ------------------------------------------- the ticks on any grid content
\* The stopped program after any number of releases: every grid of every
\* shape of at most GridCells cells, then ticks only.
InitTicks ==
    /\ \E wh \in Shapes(GridCells) :
          /\ settings = [width |-> wh[1], height |-> wh[2], delay |-> StartDelay]
          /\ field \in [0..((wh[1] * wh[2]) - 1) -> BOOLEAN]
    /\ active = FALSE
    /\ mouse_pos = [x |-> 0, y |-> 0]
    /\ current_step = 0
    /\ crashed = FALSE
    /\ stepped = FALSE
    /\ call = NoCall

NextTicks == Tick

SpecTicks == InitTicks /\ [][NextTicks]_vars

\* ------------------------------------------------ the step function alone
\* Every grid of every shape of at most MaxCells cells, as the Model a running
\* simulation holds it.
Grids(w, h) == [0..(w * h - 1) -> BOOLEAN]

InitStep ==
    /\ \E wh \in Shapes(MaxCells) :
          /\ settings = [width |-> wh[1], height |-> wh[2], delay |-> StartDelay]
          /\ field \in Grids(wh[1], wh[2])
    /\ active = TRUE
    /\ mouse_pos = [x |-> 0, y |-> 0]
    /\ current_step = 0
    /\ crashed = FALSE
    /\ stepped = FALSE
    /\ call = NoCall

\* model.field = update_field(&mut model.field, &mut model.settings)
step ==
    /\ ~crashed
    /\ stepped' = TRUE
    /\ \E r \in {update_field(field, settings)} :
          /\ call' = CallRecord(field, settings, r)
          /\ settings' = r.settings
          /\ field' = IF r.panicked THEN r.field ELSE r.copy
          /\ crashed' = r.panicked
    /\ UNCHANGED <<active, mouse_pos, current_step>>

NextStep == step

SpecStep == InitStep /\ [][NextStep]_vars

\* ------------------------------------- the step function on placed patterns
\* the grid of w x h cells whose live cells are the coordinates in live
GridOf(live, w, h) == [i \in 0..((w * h) - 1) |-> <<i % w, i \div w>> \in live]

\* the coordinates of the live cells of grid g, w cells wide
LiveSet(g, w) == {<<i % w, i \div w>> : i \in {j \in DOMAIN g : g[j]}}

\* cells as offsets from a pattern's lower left cell: a single cell, a pair,
\* the two phases of the blinker, a corner of three, and the block
Patterns ==
    { {<<0, 0>>},
      {<<0, 0>>, <<1, 0>>},
      {<<0, 0>>, <<1, 0>>, <<2, 0>>},
      {<<0, 0>>, <<0, 1>>, <<0, 2>>},
      {<<0, 0>>, <<1, 0>>, <<0, 1>>},
      {<<0, 0>>, <<1, 0>>, <<0, 1>>, <<1, 1>>} }

Placed(p, ox, oy) == {<<c[1] + ox, c[2] + oy>> : c \in p}

Fits(live, w, h) == \A c \in live : c[1] \in 0..(w - 1) /\ c[2] \in 0..(h - 1)

\* A running simulation of 4..PatW x 3..PatH cells in which the cells of one
\* pattern, placed anywhere it fits, have been toggled alive.
InitPattern ==
    /\ \E w \in 4..PatW, h \in 3..PatH :
          /\ settings = [width |-> w, height |-> h, delay |-> StartDelay]
          /\ \E p \in Patterns, ox \in 0..(w - 1), oy \in 0..(h - 1) :
                /\ Fits(Placed(p, ox, oy), w, h)
                /\ field = GridOf(Placed(p, ox, oy), w, h)
    /\ active = TRUE
    /\ mouse_pos = [x |-> 0, y |-> 0]
    /\ current_step = 0
    /\ crashed = FALSE
    /\ stepped = FALSE
    /\ call = NoCall

SpecPattern == InitPattern /\ [][NextStep]_vars

\* ------------------------------ the step function on a vector of any length
\* update_field takes the vector and the settings as two arguments: here it is
\* called with every vector of 0..AnyLenCells+1 cells, whatever width*height.
Vectors(n) == UNION {[0..(len - 1) -> BOOLEAN] : len \in 0..n}

InitAnyLen ==
    /\ \E wh \in Shapes(AnyLenCells) :
          settings = [width |-> wh[1], height |-> wh[2], delay |-> StartDelay]
    /\ field \in Vectors(AnyLenCells + 1)
    /\ active = TRUE
    /\ mouse_pos = [x |-> 0, y |-> 0]
    /\ current_step = 0
    /\ crashed = FALSE
    /\ stepped = FALSE
    /\ call = NoCall

SpecAnyLen == InitAnyLen /\ [][NextStep]_vars

\* ------------------------------------------------------------- properties
\* the in-grid cells among the 8 cells surrounding (x, y)
Surrounding(x, y, w, h) ==
    {c \in (0..(w - 1)) \X (0..(h - 1)) :
        /\ c # <<x, y>>
        /\ c[1] - x \in -1..1
        /\ c[2] - y \in -1..1}

\* the live cells of grid g among them
LiveCount(g, x, y, w, h) ==
    Cardinality({c \in Surrounding(x, y, w, h) : g[(c[2] * w) + c[1]]})

\* B3/S23
Rule(alive, n) == (alive /\ n \in {2, 3}) \/ (~alive /\ n = 3)

CallW == call.arg_settings.width
CallH == call.arg_settings.height

\* C1: for every cell (x,y), the grid update_field returns is alive at (x,y)
\* exactly when the input cell is alive with 2 or 3 live neighbours or dead
\* with exactly 3, the neighbours being the in-grid cells among the 8 around
\* (x,y) in the input grid.
C1_RuleHolds ==
    call.made =>
        /\ ~call.panicked
        /\ \A x \in 0..(CallW - 1), y \in 0..(CallH - 1) :
              call.ret[(y * CallW) + x]
                <=> Rule(call.arg[(y * CallW) + x],
                         LiveCount(call.arg, x, y, CallW, CallH))

\* a 3x3 step in which the centre dies of overcrowding, a cell survives, a
\* cell dies of isolation and a cell is born
C1_Witness ==
    /\ call.made
    /\ CallW = 3 /\ CallH = 3
    /\ call.arg[4] /\ LiveCount(call.arg, 1, 1, 3, 3) > 3 /\ ~call.ret[4]
    /\ \E i \in 0..8 : call.arg[i] /\ call.ret[i]
    /\ \E i \in 0..8 :
          call.arg[i] /\ LiveCount(call.arg, i % 3, i \div 3, 3, 3) < 2 /\ ~call.ret[i]
    /\ \E i \in 0..8 : ~call.arg[i] /\ call.ret[i]

IsCorner(x, y, w, h) == x \in {0, w - 1} /\ y \in {0, h - 1}
IsEdge(x, y, w, h) == x \in {0, w - 1} \/ y \in {0, h - 1}

\* the cells the neighbour loop counts for (x, y): those it counts as alive
\* on a grid whose cells are all alive
CountedCells(x, y, s) ==
    {d \in (0..2) \X (0..2) :
        Neighbour([i \in 0..((s.width * s.height) - 1) |-> TRUE], s, x, y, d[1], d[2]) = 1}

\* C2: a neighbour coordinate outside the grid is skipped, never wrapped: the
\* cells counted for (x,y) are exactly the in-grid cells (x+dx, y+dy), dx and
\* dy in -1..1 and not both 0, so the count of the step's input is the count
\* over those cells, a corner counts at most 3 cells and an edge at most 5.
C2_NoWrap ==
    call.made =>
        \A x \in 0..(CallW - 1), y \in 0..(CallH - 1) :
            /\ {<<(x + d[1]) - 1, (y + d[2]) - 1>> : d \in CountedCells(x, y, call.arg_settings)}
                 = Surrounding(x, y, CallW, CallH)
            /\ alive_neighbours(call.arg, call.arg_settings, x, y)
                 = LiveCount(call.arg, x, y, CallW, CallH)
            /\ IsCorner(x, y, CallW, CallH)
                 => alive_neighbours(call.arg, call.arg_settings, x, y) <= 3
            /\ IsEdge(x, y, CallW, CallH)
                 => alive_neighbours(call.arg, call.arg_settings, x, y) <= 5

\* a step of the all-alive 3x3 grid: a corner counts 3, an edge 5, the centre 8
C2_Witness ==
    /\ call.made
    /\ CallW = 3 /\ CallH = 3
    /\ \A i \in 0..8 : call.arg[i]
    /\ alive_neighbours(call.arg, call.arg_settings, 0, 0) = 3
    /\ alive_neighbours(call.arg, call.arg_settings, 2, 1) = 5
    /\ alive_neighbours(call.arg, call.arg_settings, 1, 1) = 8

\* the rule applied to all cells of g at once
AllAtOnce(g, w, h) ==
    [i \in 0..((w * h) - 1) |-> Rule(g[i], LiveCount(g, i % w, i \div w, w, h))]

\* other orders of visiting n cells: last to first, the second half before
\* the first, and the odd cells before the even ones
Descending(n) == [k \in 1..n |-> n - k]
HalvesSwapped(n) == [k \in 1..n |-> ((k - 1) + (n \div 2)) % n]
OddsFirst(n) ==
    [k \in 1..n |-> IF k <= n \div 2 THEN (2 * k) - 1 ELSE 2 * (k - (n \div 2) - 1)]
Orders(n) == {Descending(n), HalvesSwapped(n), OddsFirst(n)}

\* the step's result had it counted the neighbours in the vector it writes
RECURSIVE InPlaceFrom(_, _, _)
InPlaceFrom(st, order, k) ==
    IF k > Len(order) THEN st
    ELSE Bind(VisitCellInPlace(st, order[k]), LAMBDA v : InPlaceFrom(v, order, k + 1))

\* C3: update_field is a simultaneous update: what it returns is the rule
\* applied to all cells of the input at once, and visiting the cells in
\* another order returns the same grid.
C3_Simultaneous ==
    call.made =>
        /\ call.ret = AllAtOnce(call.arg, CallW, CallH)
        /\ \A order \in Orders(CallW * CallH) :
              VisitAll(CallEntry(call.arg, call.arg_settings), order).copy = call.ret

\* a step whose result an in-place update would have got wrong
C3_Witness ==
    /\ call.made
    /\ InPlaceFrom(CallEntry(call.arg, call.arg_settings),
                   Ascending(CallW * CallH), 1).copy # call.ret

\* C4: update_field leaves the grid it is given, and width and height, as
\* they were, and returns a grid of as many cells as the input.
C4_InputUnchanged ==
    call.made =>
        /\ call.after = call.arg
        /\ call.after_settings.width = call.arg_settings.width
        /\ call.after_settings.height = call.arg_settings.height
        /\ VecLen(call.ret) = VecLen(call.arg)

\* a step that returned a grid other than its input
C4_Witness ==
    /\ call.made
    /\ call.ret # call.arg
    /\ call.after = call.arg

SizeOk == VecLen(field) = settings.width * settings.height

\* C5: from startup on, whatever ticks, Start/Stop and Clear clicks, delay
\* changes, pointer moves and releases occur, the number of stored cells is
\* width*height and width and height keep their startup values.
C5_SizeFixed ==
    /\ SizeOk
    /\ [][/\ SizeOk'
          /\ settings'.width = settings.width
          /\ settings'.height = settings.height]_vars

\* a running 2x2 simulation after a step, with a live cell and a changed delay
C5_Witness ==
    /\ call.made
    /\ active
    /\ settings.width = 2 /\ settings.height = 2
    /\ settings.delay # StartDelay
    /\ \E i \in DOMAIN field : field[i]

\* the column and row a pointer offset maps to
PointerColumn == CellOf(mouse_pos.x, WinW, settings.width)
PointerRow == CellOf(mouse_pos.y, WinH, settings.height)
PointerInGrid ==
    /\ PointerColumn \in 0..(settings.width - 1)
    /\ PointerRow \in 0..(settings.height - 1)

\* C6: a left-button release whose pointer position maps to a column outside
\* [0,width) or a row outside [0,height) flips no cell: the grid is unchanged.
C6_OutOfRangeIgnored ==
    [][(mouse_released("Left") /\ ~PointerInGrid) => field' = field]_vars

\* C7: in a running tick the step is invoked exactly when the accumulator plus
\* the tick's elapsed time exceeds the current delay (the slider's value in
\* this tick, which the panel has stored before the timer); after a step the
\* accumulator is zero, and after a running tick without a step it is its
\* previous value plus the elapsed time and no step was made.
C7_StepWhenDue ==
    [][active' =>
         \A new_delay \in Delays, since_last \in Dts :
            \/ /\ stepped' <=> (current_step + since_last > new_delay)
               /\ stepped' => current_step' = 0
               /\ ~stepped' => current_step' = current_step + since_last
               /\ \A clear_clicked \in BOOLEAN :
                     \/ ~stepped' => field' = PanelField(clear_clicked)
                     \/ \A clicked \in BOOLEAN :
                           ~update(clicked, new_delay, clear_clicked, since_last)
            \/ \A clicked \in BOOLEAN, clear_clicked \in BOOLEAN :
                  ~update(clicked, new_delay, clear_clicked, since_last)]_vars

\* a running simulation whose accumulator has reached the delay exactly, no
\* step made
C7_Witness ==
    /\ active
    /\ ~crashed
    /\ ~stepped
    /\ current_step > 0
    /\ current_step = settings.delay

\* C8: in a tick that leaves the running flag false no step is invoked, the
\* accumulator is unchanged and no cell changes unless Clear was clicked; no
\* handler at all invokes the step while the flag is false.
C8_PausedNoStep ==
    [][~active' =>
         /\ ~stepped'
         /\ \/ current_step' = current_step
            \/ \A clicked \in BOOLEAN, new_delay \in Delays,
                  clear_clicked \in BOOLEAN, since_last \in Dts :
                  ~update(clicked, new_delay, clear_clicked, since_last)
         /\ \A clear_clicked \in BOOLEAN :
               \/ ~clear_clicked => field' = field
               \/ \A clicked \in BOOLEAN, new_delay \in Delays,
                     since_last \in Dts :
                     ~update(clicked, new_delay, clear_clicked, since_last)]_vars

\* a stopped simulation holding live cells and more accumulated time than the
\* delay
C8_Witness ==
    /\ ~active
    /\ ~crashed
    /\ ~stepped
    /\ current_step > settings.delay
    /\ \E i \in DOMAIN field : field[i]

AllDead(f) == \A i \in DOMAIN f : ~f[i]

\* C9: the grid starts all dead and the step of an all-dead grid is all dead,
\* so without a pointer release every cell is dead in every reachable state,
\* whatever the ticks, Start/Stop and Clear clicks and delay changes.
C9_StaysDead ==
    /\ AllDead(field)
    /\ stepped => AllDead(call.arg) /\ AllDead(call.ret)

\* a step of the largest all-dead grid was just made
C9_Witness ==
    /\ stepped
    /\ active
    /\ VecLen(call.arg) = GridCells
    /\ AllDead(call.ret)

\* C10: if from some point on the simulation stays running (and ticks with
\* positive elapsed time keep arriving), steps occur again and again.
C10_StepsRecur == <>[](active /\ ~crashed) => []<>stepped

\* a running simulation has just replaced a grid by its next generation, a
\* different grid, and restarted the accumulator
C10_Witness ==
    /\ stepped
    /\ active
    /\ ~crashed
    /\ current_step = 0
    /\ field = call.ret
    /\ call.ret # call.arg

BlinkerAcross == {<<1, 1>>, <<2, 1>>, <<3, 1>>}
BlinkerUp == {<<2, 0>>, <<2, 1>>, <<2, 2>>}

\* C11: on a grid of at least 5 columns and 3 rows whose only live cells are
\* (1,1),(2,1),(3,1), update_field returns the grid whose only live cells are
\* (2,0),(2,1),(2,2), and update_field of that grid returns the grid whose
\* only live cells are (1,1),(2,1),(3,1) again.
C11_Blinker ==
    (call.made /\ CallW >= 5 /\ CallH >= 3) =>
        /\ LiveSet(call.arg, CallW) = BlinkerAcross =>
              /\ ~call.panicked
              /\ LiveSet(call.ret, CallW) = BlinkerUp
              /\ LiveSet(update_field(call.ret, call.after_settings).copy, CallW)
                   = BlinkerAcross
        /\ LiveSet(call.arg, CallW) = BlinkerUp =>
              /\ ~call.panicked
              /\ LiveSet(call.ret, CallW) = BlinkerAcross

\* the second step of the blinker on the 5x3 grid: the vertical line has been
\* turned back into the horizontal one, which the simulation now holds
C11_Witness ==
    /\ call.made
    /\ CallW = 5 /\ CallH = 3
    /\ LiveSet(call.arg, CallW) = BlinkerUp
    /\ LiveSet(call.ret, CallW) = BlinkerAcross
    /\ field = call.ret

\* the live cells of g are a 2x2 block no cell of which is on an edge
BlockInside(g, w, h) ==
    \E bx \in 1..(w - 3), by \in 1..(h - 3) :
        LiveSet(g, w) = {<<bx, by>>, <<bx + 1, by>>, <<bx, by + 1>>, <<bx + 1, by + 1>>}

\* C12: a grid whose only live cells are a 2x2 block away from every edge is
\* returned unchanged by update_field, cell for cell, wherever the block is.
C12_BlockStill ==
    (call.made /\ BlockInside(call.arg, CallW, CallH)) =>
        /\ ~call.panicked
        /\ call.ret = call.arg

\* a step of the widest and tallest grid with the block in its upper right
\* part, one cell from each edge
C12_Witness ==
    /\ call.made
    /\ CallW = PatW /\ CallH = PatH
    /\ BlockInside(call.arg, CallW, CallH)
    /\ call.arg[((PatH - 2) * PatW) + (PatW - 2)]
    /\ field = call.arg

\* C13: a tick in which Clear is clicked ends with every cell dead, whatever
\* the grid was; a second Clear gives the same grid; the number of cells,
\* width and height are as before; the running flag changes only with a
\* Start/Stop click and the delay is the slider's value; and a tick with
\* nothing but the Clear click (no Start/Stop click, slider untouched, no time
\* elapsed) leaves flag, delay and accumulator as they were.
C13_Clear ==
    /\ Cleared(Cleared(field)) = Cleared(field)
    /\ [][\A clicked \in BOOLEAN, new_delay \in Delays, since_last \in Dts :
            \/ /\ AllDead(field')
               /\ Cleared(field') = field'
               /\ DOMAIN field' = DOMAIN field
               /\ settings'.width = settings.width
               /\ settings'.height = settings.height
               /\ (active' = active) <=> ~clicked
               /\ settings'.delay = new_delay
               /\ (~clicked /\ new_delay = settings.delay /\ since_last = 0) =>
                     /\ active' = active
                     /\ settings' = settings
                     /\ current_step' = current_step
            \/ ~update(clicked, new_delay, TRUE, since_last)]_vars

\* a running simulation with live cells, among them cell 0, a delay other
\* than the startup one and time accumulated: the state a Clear click meets
C13_Witness ==
    /\ active
    /\ ~crashed
    /\ field[0]
    /\ \E i \in DOMAIN field : i > 0 /\ field[i]
    /\ settings.delay # StartDelay
    /\ current_step > 0

\* C14: after a left-button release at a pointer position inside the grid,
\* running or paused, a second left-button release at the same position (no
\* tick and no pointer move between them) gives back the grid as it was before
\* the first.
C14_ToggleTwice ==
    [][(mouse_released("Left") /\ PointerInGrid) =>
          /\ ~crashed'
          /\ mouse_pos' = mouse_pos
          /\ settings' = settings
          /\ ReleaseIndex(mouse_pos', settings') \in DOMAIN field'
          /\ Toggled(field', ReleaseIndex(mouse_pos', settings')) = field]_vars

\* a running simulation whose pointer is over a live cell not in the first
\* column nor the bottom row, with another cell alive too
C14_Witness ==
    /\ active
    /\ ~crashed
    /\ ~stepped
    /\ PointerInGrid
    /\ PointerColumn > 0
    /\ PointerRow > 0
    /\ field[ReleaseIndex(mouse_pos, settings)]
    /\ \E i \in DOMAIN field : i # ReleaseIndex(mouse_pos, settings) /\ field[i]

\* the cells whose value differs between grids f and g
Flipped(f, g) == {i \in DOMAIN f : g[i] # f[i]}

\* C17: a left-button release with the pointer mapped inside the grid flips
\* exactly one cell, the cell (floor(px / (W/width)), floor(py / (H/height)))
\* of the last recorded pointer offset, and leaves every other cell, the
\* running flag, the delay and the accumulator unchanged; a release of another
\* button changes nothing.
C17_ReleaseFlipsOne ==
    [][/\ (mouse_released("Left") /\ PointerInGrid) =>
             /\ ~crashed'
             /\ DOMAIN field' = DOMAIN field
             /\ Flipped(field, field') = {(PointerRow * settings.width) + PointerColumn}
             /\ \A i \in Flipped(field, field') :
                   /\ i % settings.width = PointerColumn
                   /\ i \div settings.width = PointerRow
             /\ active' = active
             /\ settings' = settings
             /\ current_step' = current_step
             /\ mouse_pos' = mouse_pos
       /\ \A button \in Buttons \ {"Left"} :
             mouse_released(button) =>
                UNCHANGED <<field, settings, active, mouse_pos, current_step, crashed>>]_vars

\* a paused 2x2 grid whose only live cell is the upper right one, with the
\* pointer over it and time accumulated
C17_Witness ==
    /\ ~active
    /\ ~crashed
    /\ ~stepped
    /\ settings.width = 2 /\ settings.height = 2
    /\ PointerColumn = 1 /\ PointerRow = 1
    /\ LiveSet(field, 2) = {<<1, 1>>}
    /\ current_step > 0

\* C15: for a step's width and height, every in-range (x,y) has the index
\* y*width + x inside [0, width*height), which maps back to (x,y) by (mod
\* width, div width); every index i of that range maps to in-range
\* coordinates whose index is i; the step writes the result of the cell at
\* (i mod width, i div width) at index i; and the renderer draws, in column x
\* and row y, the cell the step computed for (x,y), each (x,y) once.
C15_IndexRoundTrip ==
    call.made =>
        LET s == call.arg_settings
            drawn == draw_tiles(call.ret, s)
        IN /\ \A x \in 0..(CallW - 1), y \in 0..(CallH - 1) :
                 /\ NeighbourIndex(x, y, s) \in 0..((CallW * CallH) - 1)
                 /\ NeighbourIndex(x, y, s) % CallW = x
                 /\ NeighbourIndex(x, y, s) \div CallW = y
           /\ \A i \in 0..((CallW * CallH) - 1) :
                 /\ i % CallW \in 0..(CallW - 1)
                 /\ i \div CallW \in 0..(CallH - 1)
                 /\ NeighbourIndex(i % CallW, i \div CallW, s) = i
                 /\ TileIndex(i, s) = i
                 /\ call.ret[i]
                      <=> Rule(call.arg[i],
                               LiveCount(call.arg, i % CallW, i \div CallW, CallW, CallH))
                 /\ drawn[i].tile
                      = Rule(call.arg[(drawn[i].y * CallW) + drawn[i].x],
                             LiveCount(call.arg, drawn[i].x, drawn[i].y, CallW, CallH))
           /\ \A x \in 0..(CallW - 1), y \in 0..(CallH - 1) :
                 Cardinality({i \in DOMAIN drawn : drawn[i].x = x /\ drawn[i].y = y}) = 1

\* a step of a grid 2 wide and 3 tall in which the last cell, (1,2), is born
C15_Witness ==
    /\ call.made
    /\ CallW = 2 /\ CallH = 3
    /\ ~call.arg[5]
    /\ call.ret[5]
    /\ draw_tiles(field, settings)[5] = [x |-> 1, y |-> 2, tile |-> TRUE]

\* C16: update_field called with a vector whose length differs from
\* width*height, shorter or longer, fails (panics): it returns no grid.
C16_MismatchRejected ==
    (call.made /\ VecLen(call.arg) # CallW * CallH) => call.panicked

\* the longest elapsed time offered to a tick
LongTick == MaxDelay + 1

\* C18: a handler that steps advances the grid it had after the panel by
\* exactly one generation and leaves the accumulator at zero; in particular a
\* running tick whose accumulated time exceeds twice the delay (by several
\* delay intervals) makes that one step and drops the excess.
C18_OneGeneration ==
    [][/\ stepped' =>
             /\ call'.made
             /\ ~call'.panicked
             /\ call'.arg \in {field, Cleared(field)}
             /\ field' = AllAtOnce(call'.arg, settings.width, settings.height)
             /\ current_step' = 0
       /\ active' =>
             \A clear_clicked \in BOOLEAN :
                \/ /\ stepped'
                   /\ field' = AllAtOnce(PanelField(clear_clicked),
                                         settings.width, settings.height)
                   /\ current_step' = 0
                \/ \A clicked \in BOOLEAN, new_delay \in Delays :
                      \/ current_step + LongTick <= 2 * new_delay
                      \/ ~update(clicked, new_delay, clear_clicked, LongTick)]_vars

\* a step just made under the shortest delay, of a grid whose next generation
\* differs from it and from the generation after: a second step in the same
\* tick would have shown
C18_Witness ==
    /\ stepped
    /\ active
    /\ ~crashed
    /\ current_step = 0
    /\ settings.delay = DelayMin
    /\ field = call.ret
    /\ call.ret # call.arg
    /\ AllAtOnce(call.ret, CallW, CallH) # call.ret
    /\ AllAtOnce(call.ret, CallW, CallH) # call.arg

\* C19: in a tick with the Clear click the timer path meets the cleared grid:
\* a step of that tick is a step of the all-dead grid, and the tick ends with
\* every cell dead whether it stepped or not; and a tick with the Start click
\* on a stopped simulation leaves it running, has accumulated its elapsed
\* time and steps exactly when the accumulated time exceeds the delay.
C19_PanelFirst ==
    [][/\ \A clicked \in BOOLEAN, new_delay \in Delays, since_last \in Dts :
             \/ /\ AllDead(field')
                /\ stepped' => (call'.arg = Cleared(field) /\ AllDead(call'.ret))
             \/ ~update(clicked, new_delay, TRUE, since_last)
       /\ ~active =>
             \A new_delay \in Delays, since_last \in Dts :
                \/ /\ active'
                   /\ stepped' <=> (current_step + since_last > new_delay)
                   /\ stepped' => current_step' = 0
                   /\ ~stepped' => current_step' = current_step + since_last
                \/ \A clear_clicked \in BOOLEAN :
                      ~update(TRUE, new_delay, clear_clicked, since_last)]_vars

\* a stopped 2x2 simulation with every cell alive and the accumulator at the
\* delay: a tick with Start, Clear and elapsed time steps the cleared grid
C19_Witness ==
    /\ ~active
    /\ ~crashed
    /\ settings.width = 2 /\ settings.height = 2
    /\ \A i \in DOMAIN field : field[i]
    /\ current_step > 0
    /\ current_step = settings.delay

====
